---- MODULE Spec2Model ----
(***************************************************************************)
(* Retail analytics pipeline: RFM feature extraction, K-Means based        *)
(* segmentation, segment labelling and campaign simulation, as implemented *)
(* by src/analysis.py (used by src/api.py) and src/analytics_engine.py.    *)
(*                                                                         *)
(* Numbers.  Dates are whole days.  Money is an exact rational (a pair     *)
(* <<numerator, denominator>>); the floating-point results of the code are *)
(* read as the exact values they approximate.  A discount is given in      *)
(* whole percent, so discount_pct = 0.10 is the input 10.                  *)
(*                                                                         *)
(* Library calls.  pandas and scikit-learn are modelled by their           *)
(* contracts: an exception they raise becomes the value of `error`, and    *)
(* KMeans.fit_predict is a nondeterministic choice over every labelling    *)
(* its contract allows (see KMeansLabelings).                              *)
(***************************************************************************)
EXTENDS Integers, Sequences, FiniteSets, TLC

\* ------------------------------------------------------------------ bounds
MaxRows == 2   \* rows of a detailed transaction file
MaxCust == 5   \* customers of a one-purchase-per-customer file
MaxK == 5      \* largest n_clusters passed to perform_rfm_kmeans_segmentation

CustomerIds == {1, 2}          \* customers of a detailed transaction file
Invoices == {1, 2}             \* invoice numbers of a detailed file
Days == {1, 2}                 \* invoice dates, in days
Sales == {10, 20, 30}          \* net_sales of one row
Discounts == {0, 10, 30}       \* discount rates, in percent

\* ---------------------------------------------------------- small helpers
Max(S) == CHOOSE x \in S : \A y \in S : y <= x

Min(S) == CHOOSE x \in S : \A y \in S : x <= y

Abs(x) == IF x < 0 THEN -x ELSE x

RECURSIVE Gcd(_, _)
Gcd(a, b) == IF b = 0 THEN a ELSE Gcd(b, a % b)

RECURSIVE SumSeq(_)
SumSeq(s) == IF s = <<>> THEN 0 ELSE Head(s) + SumSeq(Tail(s))

RECURSIVE SortedSeq(_)
SortedSeq(S) == IF S = {} THEN <<>> ELSE <<Min(S)>> \o SortedSeq(S \ {Min(S)})

\* Exact rationals <<n, d>> with d > 0, in lowest terms.
Rat(n, d) ==
    LET g == Gcd(Abs(n), Abs(d))
        s == IF d < 0 THEN -1 ELSE 1
    IN  <<(s * n) \div g, (s * d) \div g>>

RInt(n) == <<n, 1>>

RGt(a, b) == a[1] * b[2] > b[1] * a[2]

\* --------------------------------------------- binary64 (Python float)
\* A natural number of any size: its digits in base 2^15, lowest first, with
\* no leading zero digit (zero is the empty sequence).
Base == 2 ^ 15

RECURSIVE BigOf(_)
BigOf(n) == IF n = 0 THEN <<>> ELSE <<n % Base>> \o BigOf(n \div Base)

RECURSIVE BigToInt(_)
BigToInt(a) == IF a = <<>> THEN 0 ELSE Head(a) + Base * BigToInt(Tail(a))

RECURSIVE Trim(_)
Trim(a) ==
    IF a = <<>> THEN <<>>
    ELSE IF a[Len(a)] = 0 THEN Trim(SubSeq(a, 1, Len(a) - 1)) ELSE a

Lowest(a) == IF a = <<>> THEN 0 ELSE Head(a)

Higher(a) == IF a = <<>> THEN <<>> ELSE Tail(a)

RECURSIVE AddCarry(_, _, _)
AddDigit(a, b, x) == <<x % Base>> \o AddCarry(Higher(a), Higher(b), x \div Base)

AddCarry(a, b, c) ==
    IF a = <<>> /\ b = <<>> THEN (IF c = 0 THEN <<>> ELSE <<c>>)
    ELSE AddDigit(a, b, Lowest(a) + Lowest(b) + c)

BigAdd(a, b) == AddCarry(a, b, 0)

\* a - b for a >= b
RECURSIVE SubBorrow(_, _, _)
SubDigit(a, b, x) ==
    <<x % Base>> \o SubBorrow(Tail(a), Higher(b), IF x < 0 THEN 1 ELSE 0)

SubBorrow(a, b, c) ==
    IF a = <<>> THEN <<>> ELSE SubDigit(a, b, Head(a) - Lowest(b) - c)

BigSub(a, b) == Trim(SubBorrow(a, b, 0))

RECURSIVE CmpFrom(_, _, _)
CmpFrom(a, b, i) ==
    IF i = 0 THEN 0
    ELSE IF a[i] > b[i] THEN 1
    ELSE IF a[i] < b[i] THEN -1
    ELSE CmpFrom(a, b, i - 1)

\* -1, 0 or 1 as a is below, equal to or above b
BigCmp(a, b) ==
    IF Len(a) > Len(b) THEN 1
    ELSE IF Len(a) < Len(b) THEN -1
    ELSE CmpFrom(a, b, Len(a))

RECURSIVE MulSmallCarry(_, _, _)
MulDigit(a, k, x) == <<x % Base>> \o MulSmallCarry(Tail(a), k, x \div Base)

MulSmallCarry(a, k, c) ==
    IF a = <<>> THEN (IF c = 0 THEN <<>> ELSE <<c>>)
    ELSE MulDigit(a, k, Head(a) * k + c)

\* a * k for 0 <= k < 2^15
BigMulSmall(a, k) == IF k = 0 THEN <<>> ELSE MulSmallCarry(a, k, 0)

\* a * Base
Raised1(a) == IF a = <<>> THEN <<>> ELSE <<0>> \o a

RECURSIVE BigMul(_, _)
BigMul(a, b) ==
    IF a = <<>> \/ b = <<>> THEN <<>>
    ELSE BigAdd(BigMulSmall(a, Head(b)), Raised1(BigMul(a, Tail(b))))

RECURSIVE SmallBitLen(_)
SmallBitLen(n) == IF n = 0 THEN 0 ELSE 1 + SmallBitLen(n \div 2)

BitLen(a) == IF a = <<>> THEN 0 ELSE 15 * (Len(a) - 1) + SmallBitLen(a[Len(a)])

\* a * 2^s
Shl(a, s) ==
    IF a = <<>> THEN <<>>
    ELSE [i \in 1..(s \div 15) |-> 0] \o BigMulSmall(a, 2 ^ (s % 15))

\* up \div k for k = 2^j, j < 15
ShiftedDown(up, k) ==
    Trim([i \in 1..Len(up) |->
             (up[i] \div k) + (IF i < Len(up) THEN (up[i + 1] % k) * (Base \div k) ELSE 0)])

\* a \div 2^s
Shr(a, s) ==
    IF s \div 15 >= Len(a) THEN <<>>
    ELSE ShiftedDown(SubSeq(a, (s \div 15) + 1, Len(a)), 2 ^ (s % 15))

\* the largest d' in d..(d + 2 * step - 1) with b * d' <= rem
RECURSIVE QuotientDigit(_, _, _, _)
QuotientDigit(rem, b, step, d) ==
    IF step = 0 THEN d
    ELSE IF BigCmp(BigMulSmall(b, d + step), rem) <= 0
    THEN QuotientDigit(rem, b, step \div 2, d + step)
    ELSE QuotientDigit(rem, b, step \div 2, d)

\* the quotient and remainder by b of rem, after those of the digits above
DivModStep(above, rem, b, d) ==
    <<MulSmallCarry(above[1], Base, d), BigSub(rem, BigMulSmall(b, d))>>

DivModDigit(above, rem, b) ==
    DivModStep(above, rem, b, QuotientDigit(rem, b, Base \div 2, 0))

\* <<q, r>>, quotient and remainder by b > 0 of the digits of a from digit i
\* upwards (long division, one digit of a at a time)
RECURSIVE DivModAbove(_, _, _)
DivModNext(above, a, b, i) ==
    DivModDigit(above, MulSmallCarry(above[2], Base, a[i]), b)

DivModAbove(a, b, i) ==
    IF i > Len(a) THEN <<<<>>, <<>>>>
    ELSE DivModNext(DivModAbove(a, b, i + 1), a, b, i)

BigDivMod(a, b) == DivModAbove(a, b, 1)

\* A float is (-1)^neg * m * 2^e with m of exactly 53 bits, or zero.
FZero == [neg |-> FALSE, m |-> <<>>, e |-> 0]

\* m * 2^e with m of 53 or 54 bits, made a mantissa of 53
Carried(neg, m, e) ==
    IF BitLen(m) > 53 THEN [neg |-> neg, m |-> Shr(m, 1), e |-> e + 1]
    ELSE [neg |-> neg, m |-> m, e |-> e]

\* q = n \div 2^drop, plus one when the bits dropped are above a half, or are
\* a half and q is odd (ties to even; sticky says that more was dropped before)
RoundedOff(n, drop, q, sticky) ==
    IF BigCmp(BigSub(n, Shl(q, drop)), Shl(<<1>>, drop - 1))
           >= (IF sticky \/ q[1] % 2 = 1 THEN 0 ELSE 1)
    THEN BigAdd(q, <<1>>) ELSE q

RoundedTo53(neg, n, e, sticky, len) ==
    IF len <= 53
    THEN [neg |-> neg, m |-> Shl(n, 53 - len), e |-> e - (53 - len)]
    ELSE Carried(neg, RoundedOff(n, len - 53, Shr(n, len - 53), sticky), e + (len - 53))

\* The float nearest to (-1)^neg * (n + f) * 2^e, ties to the even mantissa,
\* where 0 <= f < 1 and f > 0 iff sticky (n of more than 53 bits when sticky;
\* the exponent range is not modelled: the values here stay far from overflow
\* and from subnormals).
RoundToFloat(neg, n, e, sticky) ==
    IF n = <<>> THEN FZero ELSE RoundedTo53(neg, n, e, sticky, BitLen(n))

\* float(n) of an int
FInt(n) == RoundToFloat(n < 0, BigOf(IF n < 0 THEN -n ELSE n), 0, FALSE)

FMul(a, b) == RoundToFloat(a.neg # b.neg, BigMul(a.m, b.m), a.e + b.e, FALSE)

FNeg(a) == IF a.m = <<>> THEN a ELSE [a EXCEPT !.neg = ~a.neg]

\* (-1)^aneg * x * 2^e + (-1)^bneg * y * 2^e for x, y > 0
AddAligned(aneg, x, bneg, y, e) ==
    IF aneg = bneg THEN RoundToFloat(aneg, BigAdd(x, y), e, FALSE)
    ELSE IF BigCmp(x, y) >= 0 THEN RoundToFloat(aneg, BigSub(x, y), e, FALSE)
    ELSE RoundToFloat(bneg, BigSub(y, x), e, FALSE)

FAdd(a, b) ==
    IF a.m = <<>> THEN b
    ELSE IF b.m = <<>> THEN a
    ELSE IF a.e < b.e THEN AddAligned(a.neg, a.m, b.neg, Shl(b.m, b.e - a.e), a.e)
    ELSE AddAligned(a.neg, Shl(a.m, a.e - b.e), b.neg, b.m, b.e)

FSub(a, b) == FAdd(a, FNeg(b))

Quotient(neg, qr, e) == RoundToFloat(neg, qr[1], e, qr[2] # <<>>)

\* a / b: 56 further bits of a give a quotient of 56 or 57 bits
FDiv(a, b) ==
    IF b.m = <<>> THEN "ZeroDivisionError"
    ELSE IF a.m = <<>> THEN FZero
    ELSE Quotient(a.neg # b.neg, BigDivMod(Shl(a.m, 56), b.m), a.e - 56 - b.e)

FGtZero(a) == a.m # <<>> /\ ~a.neg


\* ------------------------------------------------------------- data frames
\* A pandas DataFrame: its column names and its rows.  pd.DataFrame() has
\* neither.
TxColumns == {"customer_id", "invoice_no", "invoice_date", "net_sales"}

EmptyFrame == [columns |-> {}, rows |-> <<>>]

Frame(cols, rows) == [columns |-> cols, rows |-> rows]

IsEmpty(frame) == frame.rows = <<>> \/ frame.columns = {}

DetailRows ==
    [customer_id : CustomerIds, invoice_no : Invoices,
     invoice_date : Days, net_sales : Sales]

\* Every transaction file of at most MaxRows rows over the detailed rows.
DetailFiles == UNION {[1..n -> DetailRows] : n \in 0..MaxRows}

\* Files in which customer i holds invoice i, bought on day 1 for s[i];
\* customers are numbered in the order of their spend, and the invoice of the
\* last customer has one line, or a second line of 10 (lines = 2).
PopulationRows(s, lines) ==
    LET n == Len(s)
        first == [i \in 1..n |-> [customer_id |-> i, invoice_no |-> i,
                                  invoice_date |-> 1, net_sales |-> s[i]]]
    IN  IF lines = 2 /\ n > 0
        THEN Append(first, [customer_id |-> n, invoice_no |-> n,
                            invoice_date |-> 1, net_sales |-> 10])
        ELSE first

PopulationFiles ==
    UNION {
        { PopulationRows(s, lines)
          : s \in {t \in [1..n -> Sales] : \A i \in 1..n, j \in 1..n : i < j => t[i] <= t[j]},
            lines \in {1, 2} }
        : n \in 0..MaxCust }

DataFiles ==
    {[exists |-> FALSE, rows |-> <<>>]}
    \cup {[exists |-> TRUE, rows |-> r] : r \in DetailFiles \cup PopulationFiles}

\* ------------------------------------------------------ feature extraction
RfmColumns == {"customer_id", "recency", "frequency", "monetary"}

CustomersOf(rows) == {rows[i].customer_id : i \in 1..Len(rows)}

CustomerRows(rows, c) == SelectSeq(rows, LAMBDA r : r.customer_id = c)

\* today = df['invoice_date'].max() + pd.Timedelta(days=1)
TodayIsLatest(rows) == Max({rows[i].invoice_date : i \in 1..Len(rows)})

Today(rows) == Max({rows[i].invoice_date : i \in 1..Len(rows)}) + 1

\* 'invoice_date': lambda date: (today - date.max()).days
RecencyReversed(rows, c) ==
    LET mine == CustomerRows(rows, c)
    IN  Max({mine[i].invoice_date : i \in 1..Len(mine)}) - Today(rows)

Recency(rows, c) ==
    LET mine == CustomerRows(rows, c)
    IN  Today(rows) - Max({mine[i].invoice_date : i \in 1..Len(mine)})

\* 'invoice_no': 'nunique'
FrequencyRowCount(rows, c) == Len(CustomerRows(rows, c))

Frequency(rows, c) ==
    LET mine == CustomerRows(rows, c)
    IN  Cardinality({mine[i].invoice_no : i \in 1..Len(mine)})

\* 'net_sales': 'sum'
Monetary(rows, c) ==
    LET mine == CustomerRows(rows, c)
    IN  SumSeq([i \in 1..Len(mine) |-> mine[i].net_sales])

\* df.groupby('customer_id'): one group per distinct key, in key order.
GroupKeysPerRow(rows) == [i \in 1..Len(rows) |-> rows[i].customer_id]

GroupKeys(rows) == SortedSeq(CustomersOf(rows))

\* The RFM table of analysis.perform_rfm_kmeans_segmentation (its local rfm).
RfmRows(rows) ==
    LET keys == GroupKeys(rows)
    IN  [i \in 1..Len(keys) |->
            [customer_id |-> keys[i],
             recency |-> Recency(rows, keys[i]),
             frequency |-> Frequency(rows, keys[i]),
             monetary |-> Monetary(rows, keys[i])]]

\* AnalyticsEngine._calculate_rfm: the same aggregation over self.df.
calculate_rfm(frame) == Frame(RfmColumns, RfmRows(frame.rows))

\* ------------------------------------------------------------- clustering
\* np.log1p followed by StandardScaler maps each column by an injective
\* function (a constant column becomes 0 everywhere), so two customers have
\* the same scaled point exactly when their RFM triples are equal.
Point(r) == <<r.recency, r.frequency, r.monetary>>

\* StandardScaler.fit_transform raises ValueError on a table of no rows, and
\* KMeans.fit raises ValueError when n_samples < n_clusters.
ScalerRaises(rfm) == Len(rfm) = 0

KMeansRaises(rfm, k) == Len(rfm) < k

\* KMeans(n_clusters=k, random_state=42, n_init=10).fit_predict: one label in
\* 0..k-1 per row; rows with the same point get the same label (each point is
\* assigned to its nearest centroid, lowest index first).  Which labelling
\* the seeded search returns is left open.
KMeansLabelings(rfm, k) ==
    LET points == {Point(rfm[i]) : i \in 1..Len(rfm)}
    IN  {[i \in 1..Len(rfm) |-> g[Point(rfm[i])]] : g \in [points -> 0..(k - 1)]}

\* rfm['cluster'] = labels
WithCluster(rfm, labels) ==
    [i \in 1..Len(rfm) |->
        [customer_id |-> rfm[i].customer_id, recency |-> rfm[i].recency,
         frequency |-> rfm[i].frequency, monetary |-> rfm[i].monetary,
         cluster |-> labels[i]]]

ClusteredColumns == RfmColumns \cup {"cluster"}

SegmentedColumns == ClusteredColumns \cup {"segment"}

\* --------------------------------------------------------------- profiles
RealizedClusters(rows) == {rows[i].cluster : i \in 1..Len(rows)}

Members(rows, c) == SelectSeq(rows, LAMBDA r : r.cluster = c)

\* rfm.groupby('cluster')[...].mean(): the mean monetary of a cluster.
MeanMonetary(rows, c) ==
    LET m == Members(rows, c)
    IN  Rat(SumSeq([i \in 1..Len(m) |-> m[i].monetary]), Len(m))

\* cluster_profiles.sort_values(by='monetary', ascending=False).index.
\* The sort is not stable, so clusters of equal mean may come in either order.
RanksFirstAscending(rows, c, R) ==
    \A o \in R : ~RGt(MeanMonetary(rows, c), MeanMonetary(rows, o))

RanksFirst(rows, c, R) ==
    \A o \in R : ~RGt(MeanMonetary(rows, o), MeanMonetary(rows, c))

RECURSIVE OrderingsOf(_, _)
OrderingsOf(rows, R) ==
    IF R = {} THEN {<<>>}
    ELSE UNION { {<<c>> \o rest : rest \in OrderingsOf(rows, R \ {c})}
                 : c \in {x \in R : RanksFirst(rows, x, R)} }

OrderedClusters(rows) == OrderingsOf(rows, RealizedClusters(rows))

\* ---------------------------------------------------------------- labelling
\* segment_map = {ordered_clusters[0]: 'Champions', ordered_clusters[1]: 'Loyal',
\*                ordered_clusters[2]: 'At Risk', ordered_clusters[3]: 'Needs Attention'}
Labels == <<"Champions", "Loyal", "At Risk", "Needs Attention">>

\* ordered_clusters[3] raises IndexError when fewer clusters were realized.
SegmentMapRaises(ordered) == Len(ordered) < Len(Labels)

SegmentMap(ordered) ==
    [c \in {ordered[i] : i \in 1..Len(Labels)} |->
        Labels[CHOOSE i \in 1..Len(Labels) : ordered[i] = c]]

\* rfm['segment'] = rfm['cluster'].map(segment_map): NaN where the map has no key.
WithSegment(rows, map) ==
    [i \in 1..Len(rows) |->
        [customer_id |-> rows[i].customer_id, recency |-> rows[i].recency,
         frequency |-> rows[i].frequency, monetary |-> rows[i].monetary,
         cluster |-> rows[i].cluster,
         segment |-> IF rows[i].cluster \in DOMAIN map
                     THEN map[rows[i].cluster] ELSE "NaN"]]

\* analysis.perform_rfm_kmeans_segmentation(df, n_clusters): every outcome of
\* one call, an exception or the returned table.
Raised(e) == [error |-> e, table |-> EmptyFrame]

Returned(rows) == [error |-> "none", table |-> Frame(SegmentedColumns, rows)]

perform_rfm_kmeans_segmentation(frame, k) ==
    LET rfm == RfmRows(frame.rows)
    IN  IF ScalerRaises(rfm) \/ KMeansRaises(rfm, k)
        THEN {Raised("ValueError")}
        ELSE UNION {
               LET clustered == WithCluster(rfm, labels)
               IN  {IF SegmentMapRaises(ordered)
                    THEN Raised("IndexError")
                    ELSE Returned(WithSegment(clustered, SegmentMap(ordered)))
                    : ordered \in OrderedClusters(clustered)}
               : labels \in KMeansLabelings(rfm, k) }

\* AnalyticsEngine._perform_kmeans_segmentation(n_clusters) over self.rfm_df.
perform_kmeans_segmentation(rfm_frame, k) ==
    IF IsEmpty(rfm_frame) THEN {[error |-> "none", table |-> EmptyFrame]}
    ELSE IF KMeansRaises(rfm_frame.rows, k) THEN {Raised("ValueError")}
    ELSE {[error |-> "none",
           table |-> Frame(ClusteredColumns, WithCluster(rfm_frame.rows, labels))]
          : labels \in KMeansLabelings(rfm_frame.rows, k)}

\* ------------------------------------------------------ campaign simulation
UpliftPercent == 115     \* uplift_factor = 1.15

ApiClusters == 4         \* n_clusters of perform_rfm_kmeans_segmentation

EngineClusters == 5      \* n_clusters of _perform_kmeans_segmentation

\* discount_pct / discount: the float of pct hundredths (0.1 for 10)
Discount(pct) == FDiv(FInt(pct), FInt(100))

\* uplift_factor = 1.15
uplift_factor == FDiv(FInt(UpliftPercent), FInt(100))

\* q hundredths and a rest that is below (-1), equal to (0) or above (1) a half
HalfEven(q, half) ==
    BigToInt(IF half > 0 \/ (half = 0 /\ q # <<>> /\ q[1] % 2 = 1)
             THEN BigAdd(q, <<1>>) ELSE q)

\* n * 2^e to the nearest whole number, ties to even
Nearest(n, e, q) ==
    IF e >= 0 THEN BigToInt(q)
    ELSE HalfEven(q, BigCmp(BigSub(n, Shl(q, -e)), Shl(<<1>>, (-e) - 1)))

Hundredth(n, e) == Nearest(n, e, IF e >= 0 THEN Shl(n, e) ELSE Shr(n, -e))

\* f"{x:,.2f}": the value rounded to hundredths (ties to even, on the exact
\* value of the float), kept here as the whole number of hundredths the text
\* shows ("$1,150.00" is 115000).
Format2(x) ==
    IF x.neg THEN -Hundredth(BigMulSmall(x.m, 100), x.e)
    ELSE Hundredth(BigMulSmall(x.m, 100), x.e)

\* target_customers['monetary'].sum(), the numerator of .mean()
TotalOf(rows) == SumSeq([i \in 1..Len(rows) |-> rows[i].monetary])

\* target_customers['monetary'].mean()
MeanOf(total, count) == FDiv(FInt(total), FInt(count))

\* roi = net_profit, not divided by the cost
RoiOfNetProfit(net_profit, campaign_cost) == net_profit

\* roi = (net_profit / campaign_cost) * 100 if campaign_cost > 0 else 0
Roi(net_profit, campaign_cost) ==
    IF FGtZero(campaign_cost)
    THEN FMul(FDiv(net_profit, campaign_cost), FInt(100)) ELSE FZero

\* projected_roi = (net_profit - campaign_cost) / campaign_cost if campaign_cost > 0 else 0
EngineRoi(net_profit, campaign_cost) ==
    IF FGtZero(campaign_cost)
    THEN FDiv(FSub(net_profit, campaign_cost), campaign_cost) ELSE FZero

\* analysis.run_campaign_simulation from net_profit on: the values returned.
Costed(projected_revenue, campaign_cost) ==
    [projected_revenue |-> projected_revenue,
     campaign_cost |-> campaign_cost,
     projected_roi_percent |->
         Roi(FSub(projected_revenue, campaign_cost), campaign_cost)]

\* campaign_cost = projected_revenue * discount_pct
Discounted(projected_revenue, discount_pct) ==
    Costed(projected_revenue, FMul(projected_revenue, discount_pct))

\* analysis.run_campaign_simulation from customer_count on: the arithmetic on
\* the number of target customers and the total of their monetary values
\* (projected_revenue = customer_count * avg_spend * uplift_factor).
Projection(customer_count, total, pct) ==
    Discounted(FMul(FMul(FInt(customer_count), MeanOf(total, customer_count)),
                    uplift_factor),
               Discount(pct))

\* AnalyticsEngine.run_campaign_simulation from net_profit on: the texts
\* returned, each a number of hundredths.
EngineCosted(projected_revenue, campaign_cost) ==
    [projected_revenue |-> Format2(projected_revenue),
     campaign_cost |-> Format2(campaign_cost),
     projected_roi_percent |->
         Format2(FMul(EngineRoi(FSub(projected_revenue, campaign_cost),
                                campaign_cost),
                      FInt(100)))]

\* campaign_cost = projected_revenue * discount
EngineDiscounted(projected_revenue, discount) ==
    EngineCosted(projected_revenue, FMul(projected_revenue, discount))

\* AnalyticsEngine.run_campaign_simulation from customer_count on
\* (projected_revenue = avg_spend * customer_count * uplift_factor).
EngineProjection(customer_count, total, pct) ==
    EngineDiscounted(FMul(FMul(MeanOf(total, customer_count), FInt(customer_count)),
                          uplift_factor),
                     Discount(pct))

\* The totals that at most n rows can add up to.
RECURSIVE TotalsOf(_)
TotalsOf(n) ==
    IF n = 0 THEN {0} ELSE {t + s : t \in TotalsOf(n - 1), s \in Sales \cup {0}}

\* Every (customer_count, total, discount) that a target of a table can show.
Targets ==
    {k \in (1..Max({MaxCust, MaxRows}))
            \X (TotalsOf(Max({MaxCust + 1, MaxRows})) \ {0}) \X Discounts :
        k[2] >= k[1] * Min(Sales)}

\* The two functions above, tabulated once over Targets.
Projections == [k \in Targets |-> Projection(k[1], k[2], k[3])] @@ <<>>

EngineProjections == [k \in Targets |-> EngineProjection(k[1], k[2], k[3])] @@ <<>>

NoResult == [kind |-> "none"]

ErrorValue(message) == [kind |-> "error", error |-> message]

Exception(e) == [kind |-> "raised", exception |-> e]

\* The table an aggregation returned, converted by to_dict.  The aggregations
\* group by columns that the modelled rows do not carry (shopping_mall,
\* category, payment_method, ...), so their answer is named by the function
\* that computed it.
Computed(function) == [kind |-> "ok", records |-> function]

\* rfm_df.to_dict('records')
Records(rows) == [kind |-> "ok", records |-> rows]

\* analysis.run_campaign_simulation(rfm_df, target_segment, discount_pct)
run_campaign_simulation(frame, target_segment, pct) ==
    IF "segment" \notin frame.columns THEN Exception("KeyError")
    ELSE
    LET target_customers == SelectSeq(frame.rows, LAMBDA r : r.segment = target_segment)
    IN  IF target_customers = <<>>
        THEN ErrorValue("No customers found in segment")
        ELSE
        LET customer_count == Len(target_customers)
            projected == Projections[<<customer_count, TotalOf(target_customers), pct>>]
        IN  [kind |-> "ok",
             target_segment |-> target_segment,
             targeted_customers |-> customer_count,
             projected_revenue |-> projected.projected_revenue,
             campaign_cost |-> projected.campaign_cost,
             projected_roi_percent |-> projected.projected_roi_percent]

\* AnalyticsEngine.run_campaign_simulation(target_cluster, discount)
engine_run_campaign_simulation(frame, target_cluster, pct) ==
    IF "cluster" \notin frame.columns THEN Exception("KeyError")
    ELSE
    LET target_customers == SelectSeq(frame.rows, LAMBDA r : r.cluster = target_cluster)
    IN  IF target_customers = <<>>
        THEN ErrorValue("No customers found in the selected cluster.")
        ELSE
        LET customer_count == Len(target_customers)
            projected == EngineProjections[<<customer_count, TotalOf(target_customers), pct>>]
        IN  [kind |-> "ok",
             target_cluster |-> target_cluster,
             customer_count |-> customer_count,
             projected_revenue |-> projected.projected_revenue,
             campaign_cost |-> projected.campaign_cost,
             projected_roi_percent |-> projected.projected_roi_percent]

\* ------------------------------------------------------------------- state
VARIABLES
    data_file,          \* the processed parquet file: present or not, and its rows
    prog,               \* what runs: "none", "api", "analysis" (a direct call), "engine"
    pc,                 \* where it is
    df,                 \* api.df / AnalyticsEngine.df / the df passed to analysis
    self_rfm_df,        \* AnalyticsEngine.rfm_df
    rfm_df,             \* api.rfm_df / the table analysis returned
    rfm_df_clustered,   \* AnalyticsEngine.rfm_df_clustered
    n_clusters,         \* n_clusters of the segmentation call
    error,              \* the exception that left the program, or "none"
    request,            \* the arguments of the last simulation call
    result,             \* what the last call returned or raised
    handler,            \* the endpoint or method that produced result
    called              \* the analysis function that handler invoked

vars == <<data_file, prog, pc, df, self_rfm_df, rfm_df, rfm_df_clustered,
          n_clusters, error, request, result, handler, called>>

NoRequest == [target |-> "none", pct |-> 0]

Init ==
    /\ data_file \in DataFiles
    /\ prog = "none"
    /\ pc = "start"
    /\ df = EmptyFrame
    /\ self_rfm_df = EmptyFrame
    /\ rfm_df = EmptyFrame
    /\ rfm_df_clustered = EmptyFrame
    /\ n_clusters = ApiClusters
    /\ error = "none"
    /\ request = NoRequest
    /\ result = NoResult
    /\ handler = "none"
    /\ called = "none"

\* ----------------------------------------------------------------- api.py
\* Module-level data loading: only FileNotFoundError is caught.
ApiStartup ==
    /\ prog = "none"
    /\ prog' = "api"
    /\ n_clusters' = ApiClusters
    /\ \/ /\ ~data_file.exists
          /\ df' = EmptyFrame
          /\ rfm_df' = EmptyFrame
          /\ pc' = "serving"
          /\ error' = "none"
       \/ /\ data_file.exists
          /\ df' = Frame(TxColumns, data_file.rows)
          /\ \E out \in perform_rfm_kmeans_segmentation(df', ApiClusters) :
                /\ rfm_df' = out.table
                /\ error' = out.error
                /\ pc' = IF out.error = "none" THEN "serving" ELSE "crashed"
    /\ UNCHANGED <<data_file, self_rfm_df, rfm_df_clustered, request, result,
                   handler, called>>

\* GET /simulations/campaign, were the segment looked up before the guard.
simulate_campaign_segment_first(target_segment, pct) ==
    /\ prog = "api"
    /\ pc = "serving"
    /\ result = NoResult
    /\ request' = [target |-> target_segment, pct |-> pct]
    /\ handler' = "/simulations/campaign"
    /\ called' = "run_campaign_simulation"
    /\ result' = run_campaign_simulation(rfm_df, target_segment, pct)
    /\ UNCHANGED <<data_file, prog, pc, df, self_rfm_df, rfm_df,
                   rfm_df_clustered, n_clusters, error>>

\* GET /simulations/campaign
simulate_campaign(target_segment, pct) ==
    /\ prog = "api"
    /\ pc = "serving"
    /\ result = NoResult
    /\ request' = [target |-> target_segment, pct |-> pct]
    /\ handler' = "/simulations/campaign"
    /\ called' = IF IsEmpty(rfm_df) THEN "none" ELSE "run_campaign_simulation"
    /\ result' = IF IsEmpty(rfm_df) THEN ErrorValue("Data not loaded.")
                 ELSE run_campaign_simulation(rfm_df, target_segment, pct)
    /\ UNCHANGED <<data_file, prog, pc, df, self_rfm_df, rfm_df,
                   rfm_df_clustered, n_clusters, error>>

\* A data endpoint: `if <table>.empty: return {"error": "Data not loaded."}`,
\* then the answer of the analysis function; module-level df and rfm_df are
\* only read.
Respond(path, not_loaded, function, answer) ==
    /\ prog = "api"
    /\ pc = "serving"
    /\ result = NoResult
    /\ handler' = path
    /\ called' = IF not_loaded THEN "none" ELSE function
    /\ result' = IF not_loaded THEN ErrorValue("Data not loaded.") ELSE answer
    /\ UNCHANGED <<data_file, prog, pc, df, self_rfm_df, rfm_df,
                   rfm_df_clustered, n_clusters, error, request>>

\* GET /
read_root ==
    /\ prog = "api"
    /\ pc = "serving"
    /\ result = NoResult
    /\ handler' = "/"
    /\ called' = "none"
    /\ result' = [kind |-> "ok",
                  message |-> "Welcome to the Simplified Retail Insights API"]
    /\ UNCHANGED <<data_file, prog, pc, df, self_rfm_df, rfm_df,
                   rfm_df_clustered, n_clusters, error, request>>

\* GET /performance/stores
get_store_performance ==
    Respond("/performance/stores", IsEmpty(df),
            "calculate_store_performance", Computed("calculate_store_performance"))

\* GET /customers/top-customers
get_top_customers ==
    Respond("/customers/top-customers", IsEmpty(df),
            "get_top_customers", Computed("get_top_customers"))

\* GET /customers/value-segmentation
get_value_segmentation ==
    Respond("/customers/value-segmentation", IsEmpty(df),
            "get_customer_value_segmentation",
            Computed("get_customer_value_segmentation"))

\* GET /insights/discount-impact
get_discount_impact ==
    Respond("/insights/discount-impact", IsEmpty(df),
            "get_discount_impact", Computed("get_discount_impact"))

\* GET /insights/seasonality
get_seasonality ==
    Respond("/insights/seasonality", IsEmpty(df),
            "analyze_seasonality", Computed("analyze_seasonality"))

\* GET /insights/payment-methods
get_payment_methods ==
    Respond("/insights/payment-methods", IsEmpty(df),
            "analyze_payment_methods", Computed("analyze_payment_methods"))

\* GET /customers/rfm-segments
get_rfm_segments ==
    Respond("/customers/rfm-segments", IsEmpty(rfm_df), "none", Records(rfm_df.rows))

\* GET /customers/repeat-vs-onetime
get_repeat_vs_onetime ==
    Respond("/customers/repeat-vs-onetime", IsEmpty(df),
            "analyze_repeat_vs_onetime_customers",
            Computed("analyze_repeat_vs_onetime_customers"))

\* GET /insights/category-by-segment, were pd.merge to write the segment
\* column into df instead of returning a new table.
get_category_by_segment_in_place ==
    /\ prog = "api"
    /\ pc = "serving"
    /\ result = NoResult
    /\ handler' = "/insights/category-by-segment"
    /\ called' = IF IsEmpty(df) \/ IsEmpty(rfm_df) THEN "none"
                 ELSE "get_category_insights_by_segment"
    /\ result' = IF IsEmpty(df) \/ IsEmpty(rfm_df) THEN ErrorValue("Data not loaded.")
                 ELSE Computed("get_category_insights_by_segment")
    /\ df' = IF IsEmpty(df) \/ IsEmpty(rfm_df) THEN df
             ELSE Frame(df.columns \cup {"segment"}, df.rows)
    /\ UNCHANGED <<data_file, prog, pc, self_rfm_df, rfm_df,
                   rfm_df_clustered, n_clusters, error, request>>

\* GET /insights/category-by-segment
get_category_by_segment ==
    Respond("/insights/category-by-segment", IsEmpty(df) \/ IsEmpty(rfm_df),
            "get_category_insights_by_segment",
            Computed("get_category_insights_by_segment"))

\* ------------------------------------------- analysis.py, called directly
CallSegmentation(k) ==
    /\ prog = "none"
    /\ data_file.exists
    /\ prog' = "analysis"
    /\ n_clusters' = k
    /\ df' = Frame(TxColumns, data_file.rows)
    /\ \E out \in perform_rfm_kmeans_segmentation(df', k) :
          /\ rfm_df' = out.table
          /\ error' = out.error
          /\ pc' = IF out.error = "none" THEN "returned" ELSE "crashed"
    /\ UNCHANGED <<data_file, self_rfm_df, rfm_df_clustered, request, result,
                   handler, called>>

CallCampaignSimulation(target_segment, pct) ==
    /\ prog = "analysis"
    /\ pc = "returned"
    /\ result = NoResult
    /\ request' = [target |-> target_segment, pct |-> pct]
    /\ handler' = "run_campaign_simulation"
    /\ called' = "none"
    /\ result' = run_campaign_simulation(rfm_df, target_segment, pct)
    /\ UNCHANGED <<data_file, prog, pc, df, self_rfm_df, rfm_df,
                   rfm_df_clustered, n_clusters, error>>

\* ---------------------------------------------------- analytics_engine.py
\* AnalyticsEngine.__init__: pd.read_parquet and the except branch.
EngineRead ==
    /\ prog = "none"
    /\ prog' = "engine"
    /\ n_clusters' = EngineClusters
    /\ \/ /\ data_file.exists
          /\ df' = Frame(TxColumns, data_file.rows)
          /\ pc' = "loaded"
          /\ UNCHANGED rfm_df_clustered
       \/ /\ ~data_file.exists
          /\ df' = EmptyFrame
          /\ rfm_df_clustered' = EmptyFrame
          /\ pc' = "ready"
    /\ UNCHANGED <<data_file, self_rfm_df, rfm_df, error, request, result,
                   handler, called>>

\* self.rfm_df = self._calculate_rfm()
EngineCalculateRfm ==
    /\ prog = "engine"
    /\ pc = "loaded"
    /\ self_rfm_df' = calculate_rfm(df)
    /\ pc' = "rfm"
    /\ UNCHANGED <<data_file, prog, df, rfm_df, rfm_df_clustered, n_clusters,
                   error, request, result, handler, called>>

\* self.rfm_df_clustered = self._perform_kmeans_segmentation()
EnginePerformKmeans ==
    /\ prog = "engine"
    /\ pc = "rfm"
    /\ \E out \in perform_kmeans_segmentation(self_rfm_df, EngineClusters) :
          /\ rfm_df_clustered' = out.table
          /\ error' = out.error
          /\ pc' = IF out.error = "none" THEN "ready" ELSE "crashed"
    /\ UNCHANGED <<data_file, prog, df, self_rfm_df, rfm_df, n_clusters,
                   request, result, handler, called>>

EngineRunCampaignSimulation(target_cluster, pct) ==
    /\ prog = "engine"
    /\ pc = "ready"
    /\ result = NoResult
    /\ request' = [target |-> target_cluster, pct |-> pct]
    /\ handler' = "run_campaign_simulation"
    /\ called' = "none"
    /\ result' = engine_run_campaign_simulation(rfm_df_clustered, target_cluster, pct)
    /\ UNCHANGED <<data_file, prog, pc, df, self_rfm_df, rfm_df,
                   rfm_df_clustered, n_clusters, error>>

\* A query method of the engine: no guard, so a table without the column it
\* selects raises KeyError; self.df and self.rfm_df_clustered are only read.
EngineQuery(method, frame) ==
    /\ prog = "engine"
    /\ pc = "ready"
    /\ result = NoResult
    /\ handler' = method
    /\ called' = "none"
    /\ result' = IF frame.columns = {} THEN Exception("KeyError") ELSE Computed(method)
    /\ UNCHANGED <<data_file, prog, pc, df, self_rfm_df, rfm_df,
                   rfm_df_clustered, n_clusters, error, request>>

\* AnalyticsEngine.get_store_performance
engine_get_store_performance == EngineQuery("get_store_performance", df)

\* AnalyticsEngine.get_payment_methods_distribution
get_payment_methods_distribution == EngineQuery("get_payment_methods_distribution", df)

\* AnalyticsEngine.get_monthly_sales_trend
get_monthly_sales_trend == EngineQuery("get_monthly_sales_trend", df)

\* The mean recency, frequency and monetary of the members of each cluster.
ClusterProfiles(rows) ==
    LET ids == SortedSeq(RealizedClusters(rows))
        mean(c, field) ==
            LET m == Members(rows, c)
            IN  Rat(SumSeq([i \in 1..Len(m) |-> m[i][field]]), Len(m))
    IN  [i \in 1..Len(ids) |->
            [cluster |-> ids[i],
             recency |-> mean(ids[i], "recency"),
             frequency |-> mean(ids[i], "frequency"),
             monetary |-> mean(ids[i], "monetary")]]

\* AnalyticsEngine.get_kmeans_cluster_profiles
get_kmeans_cluster_profiles ==
    /\ prog = "engine"
    /\ pc = "ready"
    /\ result = NoResult
    /\ handler' = "get_kmeans_cluster_profiles"
    /\ called' = "none"
    /\ result' = IF IsEmpty(rfm_df_clustered) THEN Records(<<>>)
                 ELSE Records(ClusterProfiles(rfm_df_clustered.rows))
    /\ UNCHANGED <<data_file, prog, pc, df, self_rfm_df, rfm_df,
                   rfm_df_clustered, n_clusters, error, request>>

\* AnalyticsEngine.get_category_insights_by_cluster: pd.merge(self.df, ...)
get_category_insights_by_cluster ==
    /\ prog = "engine"
    /\ pc = "ready"
    /\ result = NoResult
    /\ handler' = "get_category_insights_by_cluster"
    /\ called' = "none"
    /\ result' = IF df.columns = {} \/ rfm_df_clustered.columns = {}
                 THEN Exception("KeyError")
                 ELSE Computed("get_category_insights_by_cluster")
    /\ UNCHANGED <<data_file, prog, pc, df, self_rfm_df, rfm_df,
                   rfm_df_clustered, n_clusters, error, request>>

\* A call is synchronous: its caller takes the returned value (or the raised
\* exception) before the next call is made.
ReturnToCaller ==
    /\ result # NoResult
    /\ result' = NoResult
    /\ request' = NoRequest
    /\ handler' = "none"
    /\ called' = "none"
    /\ UNCHANGED <<data_file, prog, pc, df, self_rfm_df, rfm_df,
                   rfm_df_clustered, n_clusters, error>>

\* ------------------------------------------------------------ specification
SegmentNames == {Labels[i] : i \in 1..Len(Labels)} \cup {"VIP"}

Next ==
    \/ ApiStartup
    \/ \E t \in SegmentNames, p \in Discounts : simulate_campaign(t, p)
    \/ read_root
    \/ get_store_performance
    \/ get_top_customers
    \/ get_value_segmentation
    \/ get_discount_impact
    \/ get_seasonality
    \/ get_payment_methods
    \/ get_rfm_segments
    \/ get_repeat_vs_onetime
    \/ get_category_by_segment
    \/ \E k \in 1..MaxK : CallSegmentation(k)
    \/ \E t \in SegmentNames, p \in Discounts : CallCampaignSimulation(t, p)
    \/ EngineRead
    \/ EngineCalculateRfm
    \/ EnginePerformKmeans
    \/ \E c \in 0..EngineClusters, p \in Discounts : EngineRunCampaignSimulation(c, p)
    \/ engine_get_store_performance
    \/ get_payment_methods_distribution
    \/ get_monthly_sales_trend
    \/ get_kmeans_cluster_profiles
    \/ get_category_insights_by_cluster
    \/ ReturnToCaller

Spec == Init /\ [][Next]_vars

\* ------------------------------------------------------------------ claims
\* The table the running program serves simulations from, and the rows the
\* last request selected in it.
Segmented == prog \in {"api", "analysis"} /\ pc \in {"serving", "returned"}

EngineReady == prog = "engine" /\ pc = "ready"

TargetRows ==
    IF prog = "engine"
    THEN SelectSeq(rfm_df_clustered.rows, LAMBDA r : r.cluster = request.target)
    ELSE SelectSeq(rfm_df.rows, LAMBDA r : r.segment = request.target)

\* The values the statement gives for a target of customer_count customers
\* whose monetary values total to total, evaluated in floats in the order
\* written, and tabulated over Targets.
ExpectedOfCost(revenue, cost) ==
    [projected_revenue |-> revenue,
     campaign_cost |-> cost,
     projected_roi_percent |->
         IF FGtZero(cost)
         THEN FMul(FDiv(FSub(revenue, cost), cost), FInt(100)) ELSE FZero]

ExpectedOfRevenue(revenue, discount) ==
    ExpectedOfCost(revenue, FMul(revenue, discount))

Expected(customer_count, total, pct) ==
    ExpectedOfRevenue(FMul(FMul(FInt(customer_count),
                                FDiv(FInt(total), FInt(customer_count))),
                           FDiv(FInt(UpliftPercent), FInt(100))),
                      FDiv(FInt(pct), FInt(100)))

Expectations == [k \in Targets |-> Expected(k[1], k[2], k[3])] @@ <<>>

ExpectedOfRequest == Expectations[<<Len(TargetRows), TotalOf(TargetRows), request.pct>>]

Simulated == handler \in {"/simulations/campaign", "run_campaign_simulation"}

\* C1: every campaign simulation over a non-empty target returns
\* projected_revenue = customer_count * avg_spend * 1.15, campaign_cost =
\* projected_revenue * d and projected_roi_percent = (net_profit /
\* campaign_cost) * 100 when campaign_cost > 0, else 0 -- in the segment
\* function and in the engine method (whose texts show the same values to
\* two decimals).
C1_SimulationFormula ==
    (Simulated /\ result.kind = "ok") =>
        IF prog = "engine"
        THEN /\ result.customer_count = Len(TargetRows)
             /\ result.projected_revenue = Format2(ExpectedOfRequest.projected_revenue)
             /\ result.campaign_cost = Format2(ExpectedOfRequest.campaign_cost)
             /\ result.projected_roi_percent =
                   Format2(ExpectedOfRequest.projected_roi_percent)
        ELSE /\ result.targeted_customers = Len(TargetRows)
             /\ result.projected_revenue = ExpectedOfRequest.projected_revenue
             /\ result.campaign_cost = ExpectedOfRequest.campaign_cost
             /\ result.projected_roi_percent = ExpectedOfRequest.projected_roi_percent

\* C2: a simulation whose target selects no customer returns an error value;
\* it never raises, whatever the state of the tables (empty table included).
C2_EmptyTargetReturnsError ==
    (Simulated /\ TargetRows = <<>>) => result.kind = "error"

\* C3: after segmentation every customer of the input has exactly one row,
\* with one cluster id in 0..k-1, no row belongs to a customer that is not in
\* the input, and the member counts of the clusters add up to the number of
\* distinct customers.
RowsOfCustomer(rows, c) == {i \in 1..Len(rows) : rows[i].customer_id = c}

RECURSIVE MemberCountSum(_, _)
MemberCountSum(rows, k) ==
    IF k = 0 THEN 0
    ELSE Cardinality({i \in 1..Len(rows) : rows[i].cluster = k - 1})
         + MemberCountSum(rows, k - 1)

IsPartition(rows, k) ==
    /\ \A c \in CustomersOf(df.rows) : Cardinality(RowsOfCustomer(rows, c)) = 1
    /\ \A i \in 1..Len(rows) :
          /\ rows[i].customer_id \in CustomersOf(df.rows)
          /\ rows[i].cluster \in 0..(k - 1)
    /\ MemberCountSum(rows, k) = Cardinality(CustomersOf(df.rows))

C3_ClustersPartitionCustomers ==
    /\ Segmented => IsPartition(rfm_df.rows, n_clusters)
    /\ EngineReady => IsPartition(rfm_df_clustered.rows, n_clusters)

\* A completed segmentation of a file in which a customer has two rows.
C3_Witness ==
    /\ Segmented \/ EngineReady
    /\ Len(rfm_df.rows) + Len(rfm_df_clustered.rows) >= ApiClusters
    /\ Len(df.rows) > Cardinality(CustomersOf(df.rows))

\* C4: for two realized clusters A and B with mean monetary of A strictly
\* greater than that of B, the label of A comes strictly earlier in
\* (Champions, Loyal, At Risk, Needs Attention) than the label of B.  Labels
\* are compared where the labelling assigned one: a cluster ranked past the
\* end of the list has none.
LabelIndex(l) == CHOOSE i \in 1..Len(Labels) : Labels[i] = l

Labelled(r) == r.segment \in {Labels[i] : i \in 1..Len(Labels)}

EnoughCustomers == Cardinality(CustomersOf(df.rows)) >= n_clusters

C5_MismatchedKRejected ==
    (prog = "analysis" /\ n_clusters # Len(Labels) /\ EnoughCustomers) =>
        (pc = "crashed" /\ error = "ConfigurationError")

\* C6: three customers of monetary 10, 20 and 30 segmented with k = 1 give
\* one cluster of mean monetary 20 and one segment label for all three.
DegenerateInput ==
    /\ prog = "analysis"
    /\ n_clusters = 1
    /\ [i \in 1..Len(RfmRows(df.rows)) |-> RfmRows(df.rows)[i].monetary] = <<10, 20, 30>>

C6_DegenerateClustering ==
    DegenerateInput =>
        /\ pc = "returned"
        /\ Len(rfm_df.rows) = 3
        /\ Cardinality(RealizedClusters(rfm_df.rows)) = 1
        /\ \A c \in RealizedClusters(rfm_df.rows) : MeanMonetary(rfm_df.rows, c) = RInt(20)
        /\ \A i \in 1..3 : /\ Labelled(rfm_df.rows[i])
                           /\ rfm_df.rows[i].segment = rfm_df.rows[1].segment

\* C7: on a file of no transactions the callers (API start-up, engine
\* construction) finish with empty downstream tables; no exception leaves them.
EmptyDataset == data_file.exists /\ data_file.rows = <<>>

C7_EmptyDatasetGivesEmptyTables ==
    EmptyDataset =>
        /\ prog = "api" => (pc = "serving" /\ error = "none" /\ IsEmpty(rfm_df))
        /\ (prog = "engine" /\ pc \in {"ready", "crashed"}) =>
              (pc = "ready" /\ error = "none" /\ IsEmpty(self_rfm_df)
               /\ IsEmpty(rfm_df_clustered))

\* C8: every row of an RFM table computed from a non-empty file has
\* recency >= 0 and frequency >= 1.
RfmComputed == prog = "engine" /\ pc \in {"rfm", "ready", "crashed"}

C8_RecencyFrequencyBounds ==
    /\ RfmComputed =>
          \A i \in 1..Len(self_rfm_df.rows) :
              self_rfm_df.rows[i].recency >= 0 /\ self_rfm_df.rows[i].frequency >= 1
    /\ Segmented =>
          \A i \in 1..Len(rfm_df.rows) :
              rfm_df.rows[i].recency >= 0 /\ rfm_df.rows[i].frequency >= 1

\* Two customers, one of whom bought a day before the last purchase on file.
C8_Witness ==
    /\ RfmComputed
    /\ \E i \in 1..Len(self_rfm_df.rows), j \in 1..Len(self_rfm_df.rows) :
          self_rfm_df.rows[i].recency = 1 /\ self_rfm_df.rows[j].recency = 2

\* C9: frequency[c] is the number of distinct invoice numbers among the rows
\* of c, and a further row that repeats an invoice number of c leaves it as
\* it was.
FirstOccurrences(rows, c) ==
    {i \in 1..Len(rows) :
        /\ rows[i].customer_id = c
        /\ \A j \in 1..(i - 1) :
              ~(rows[j].customer_id = c /\ rows[j].invoice_no = rows[i].invoice_no)}

RepeatRows(rows, c) ==
    [customer_id : {c},
     invoice_no : {rows[i].invoice_no : i \in RowsOfCustomer(rows, c)},
     invoice_date : Days, net_sales : Sales]

FrequencyIsDistinctInvoices(table) ==
    \A i \in 1..Len(table) :
        LET c == table[i].customer_id
        IN  /\ table[i].frequency = Cardinality(FirstOccurrences(df.rows, c))
            /\ \A x \in RepeatRows(df.rows, c) :
                  Frequency(Append(df.rows, x), c) = table[i].frequency

C9_FrequencyCountsDistinctInvoices ==
    /\ (prog = "engine" /\ pc = "rfm") => FrequencyIsDistinctInvoices(self_rfm_df.rows)
    /\ Segmented => FrequencyIsDistinctInvoices(rfm_df.rows)

\* A customer with two rows on one invoice, so frequency 1.
C9_Witness ==
    /\ prog = "engine" /\ pc = "rfm"
    /\ \E i \in 1..Len(self_rfm_df.rows) :
          /\ self_rfm_df.rows[i].frequency = 1
          /\ Cardinality(RowsOfCustomer(df.rows, self_rfm_df.rows[i].customer_id)) = 2

\* C12: one reference date, the latest invoice_date on file plus one day, serves
\* every customer: recency is that date minus the customer's own latest
\* invoice_date, so it is exactly 1 for whoever holds the latest transaction
\* and at least 1 for everybody else.
LatestDate(rows) == Max({rows[i].invoice_date : i \in 1..Len(rows)})

LastPurchase(rows, c) == Max({rows[i].invoice_date : i \in RowsOfCustomer(rows, c)})

MeasuredFromOneReference(table) ==
    \A i \in 1..Len(table) :
        LET last == LastPurchase(df.rows, table[i].customer_id)
        IN  /\ table[i].recency = (LatestDate(df.rows) + 1) - last
            /\ table[i].recency >= 1
            /\ last = LatestDate(df.rows) => table[i].recency = 1

C12_RecencyFromOneReferenceDate ==
    /\ RfmComputed => MeasuredFromOneReference(self_rfm_df.rows)
    /\ Segmented => MeasuredFromOneReference(rfm_df.rows)

\* One customer holds the latest transaction, the other bought the day before.
C12_Witness ==
    /\ prog = "engine" /\ pc = "rfm"
    /\ \E i \in 1..Len(self_rfm_df.rows), j \in 1..Len(self_rfm_df.rows) :
          /\ LastPurchase(df.rows, self_rfm_df.rows[i].customer_id) = LatestDate(df.rows)
          /\ self_rfm_df.rows[i].recency = 1
          /\ LastPurchase(df.rows, self_rfm_df.rows[j].customer_id) < LatestDate(df.rows)
          /\ self_rfm_df.rows[j].recency = 2

\* C11: once start-up is over, no API request and no engine call changes the
\* transaction table, the RFM table, the cluster assignment or the segment
\* labels, and the program stays started.
Started == (prog = "api" /\ pc = "serving") \/ (prog = "engine" /\ pc = "ready")

TablesUnchanged ==
    /\ df' = df
    /\ self_rfm_df' = self_rfm_df
    /\ rfm_df' = rfm_df
    /\ rfm_df_clustered' = rfm_df_clustered

C11_TablesReadOnlyAfterStartup == [][Started => (Started' /\ TablesUnchanged)]_vars

\* The endpoint that joins both tables has answered from loaded data.
C11_Witness ==
    /\ prog = "api" /\ pc = "serving"
    /\ handler = "/insights/category-by-segment"
    /\ result.kind = "ok"
    /\ ~IsEmpty(df) /\ ~IsEmpty(rfm_df)

\* C14: after a start-up that did not find the data file, df and rfm_df are
\* both empty and every data endpoint answers {"error": "Data not loaded."}
\* without calling an analysis function, whatever was requested before; the
\* campaign endpoint gives this answer for an unknown segment too.
LoadFailed == prog = "api" /\ ~data_file.exists

DataEndpoints ==
    {"/performance/stores", "/customers/top-customers",
     "/customers/value-segmentation", "/insights/discount-impact",
     "/insights/seasonality", "/insights/payment-methods",
     "/customers/rfm-segments", "/customers/repeat-vs-onetime",
     "/insights/category-by-segment", "/simulations/campaign"}

C14_DataNotLoadedOnEveryEndpoint ==
    LoadFailed =>
        /\ pc = "serving"
        /\ IsEmpty(df) /\ IsEmpty(rfm_df)
        /\ handler \in DataEndpoints =>
              result = ErrorValue("Data not loaded.") /\ called = "none"
        /\ handler \in DataEndpoints \cup {"/", "none"}

\* A campaign for a segment that does not exist, requested with no data.
C14_Witness ==
    /\ LoadFailed
    /\ handler = "/simulations/campaign"
    /\ request.target = "VIP"
    /\ result = ErrorValue("Data not loaded.")

\* C13: with campaign_cost > 0 the projected ROI is a function of the discount
\* alone: the simulation just returned and a simulation at the same discount
\* on any other non-empty target of the table return the same
\* projected_roi_percent.
CostPositive == request.pct > 0 /\ TotalOf(TargetRows) > 0

OtherTargets ==
    IF prog = "engine" THEN RealizedClusters(rfm_df_clustered.rows)
    ELSE {rfm_df.rows[i].segment : i \in 1..Len(rfm_df.rows)} \ {"NaN"}

RoiOn(target) ==
    IF prog = "engine"
    THEN engine_run_campaign_simulation(rfm_df_clustered, target,
                                        request.pct).projected_roi_percent
    ELSE run_campaign_simulation(rfm_df, target, request.pct).projected_roi_percent

Close(x, num, den) ==
    LET a == BigMulSmall(x.m, den)
        b == Shl(BigOf(num), -x.e)
        gap == IF BigCmp(a, b) >= 0 THEN BigSub(a, b) ELSE BigSub(b, a)
    IN  ~x.neg /\ x.m # <<>> /\ x.e < 0 /\ BigCmp(Shl(gap, 50), b) <= 0

\* num / den in hundredths, rounded half to even
Hundredths(num, den) ==
    LET q == (100 * num) \div den
        r == (100 * num) % den
    IN  IF 2 * r > den \/ (2 * r = den /\ q % 2 = 1) THEN q + 1 ELSE q

====
